---- MODULE Spec2Model ----
(***************************************************************************)
(* Listen-Attend-Spell: the Speller's decode loop (las/las.py), the LAS    *)
(* train / inference entry points and masked loss, and the character       *)
(* tokenizer (utils/text.py, preprocess.py).                               *)
(*                                                                         *)
(* Tensors are modelled per utterance: a batch is a sequence 1..B, the     *)
(* time axis a sequence 1..T (position t of the code is index t+1), a      *)
(* logit vector a function 0..vocab_size-1 -> activation level.  Floating  *)
(* point layers (embedding, attention, RNN cell, dense projection) are     *)
(* deterministic functions of their inputs and of the parameters; they are *)
(* modelled as deterministic functions over Levels quantised activation    *)
(* levels.  Random draws (tf.random_uniform, Categorical.sample, dropout)  *)
(* are nondeterministic choices.                                           *)
(***************************************************************************)
EXTENDS Integers, Sequences, FiniteSets, TLC

\* ---- bounds of the model ----
MaxBatch == 2       \* utterances per batch: 1..MaxBatch
MaxT == 2           \* padded target length T2: 0..MaxT
MaxAudioLen == 2    \* valid feature length of an utterance: 1..MaxAudioLen
MaxCalls == 2       \* runs of the graph on one input
MaxSentenceLen == 2 \* characters of a sentence given to encode
MaxTexts == 2       \* sentences of a corpus given to process_texts
MaxTextLen == 2     \* characters of a corpus sentence
MaxOver == 12       \* items of a feature list beyond _SAMPLE_THRESHOLD

\* ---- quantisation of the real-valued quantities ----
ActLevels == 0..2                     \* activation levels of the float layers
Levels == Cardinality(ActLevels)
TeacherForcingRates == {0, 1, 2}      \* teacher_forcing_rate 0.0, 0.5, 1.0 (in halves)
UniformDraws == {0, 1}                \* tf.random_uniform in [0, 1): 0.0, 0.5 (in halves)
ConvertRates ==                       \* convert_rate 0.25, 0.5, 1.0, 1.5
    {[num |-> 1, den |-> 4], [num |-> 1, den |-> 2],
     [num |-> 1, den |-> 1], [num |-> 3, den |-> 2]}
\* every utterance of a training batch draws its own sample at every step, so the
\* loop's branching grows as vocab_size^B: training batches hold one utterance
TrainBatchSizes == {1}

\* ---- program constants ----
PAD == 0            \* tf.equal(y, 0): the id excluded from the loss
SOS == 1            \* tf.ones(...): the start token of every decode call
EpsNano == 1        \* the 1e-9 added to the mask sum, in units of 1e-9
_SAMPLE_THRESHOLD == 50000  \* lists longer than this are saved in chunks

VARIABLES
    args,        \* configuration: vocab_size, teacher_forcing_rate, ...
    params,      \* the learned parameters (one index stands for all weights)
    tie,         \* how this build's argmax kernel breaks ties
    audiolen,    \* xs: valid feature lengths, one per utterance
    y,           \* ys: padded ground-truth token ids (B x T2)
    charlen,     \* ys: valid target lengths
    mode,        \* the entry point the graph is built by: "train" | "inference"
    pc,          \* "idle" | "loop" | "done" | "error" | "raised"
    calls,       \* entry-point calls made so far
    dec_steps,   \* the step count the loop was entered with
    enc,         \* Listener output: [h, enc_len]
    t,           \* loop counter
    rnn_state,   \* recurrent state, per utterance
    prev_char,   \* previous-token embedding, per utterance: [tok, emb]
    output,      \* accumulated logits, per utterance (placeholder first)
    logits,      \* result: output[:, 1:, :]
    y_hat,       \* inference result: argmax of logits
    loss,        \* training result: [num, den]
    prev,        \* result of the previous call on the same input
    hist,        \* what the last iteration did (draws, branch, reads)
    tok,         \* the text_encoder object, or the exception its constructor raised
    encoded,     \* the last call of tokenizer.encode: [sentence, with_eos, res]
    tokens,      \* process_texts: the encoded sentences
    tokenlen,    \* process_texts: their lengths
    feats        \* the call of save_ted_feats / process_libri_feats under way

decVars == <<args, params, tie, audiolen, y, charlen, mode, pc, calls, dec_steps,
             enc, t, rnn_state, prev_char, output, logits, y_hat, loss, prev, hist>>

tokVars == <<tok, encoded, tokens, tokenlen>>

featVars == <<feats>>

vars == <<decVars, tokVars, featVars>>

\* ---- helpers ----
Range(s) == {s[i] : i \in DOMAIN s}

RECURSIVE SeqSum(_)
SeqSum(s) == IF s = <<>> THEN 0 ELSE Head(s) + SeqSum(Tail(s))

MaxOf(S) == CHOOSE m \in S : \A x \in S : x <= m

\* all sequences over S of length exactly n / at most n
SeqsOfLen(S, n) == [1..n -> S]
SeqsUpTo(S, n) == UNION {SeqsOfLen(S, k) : k \in 0..n}

\* ---- configuration and inputs ----
Tokens(a) == 0..(a.vocab_size - 1)

\* a graph is built by one entry point, LAS.train or LAS.inference, and then run;
\* the fields the other entry point reads are left at one value
\* vocab_size 0 stands for an unset vocab_size (None or 0: both fail the test
\* "if not args.vocab_size"); vocab 0 stands for args having no attribute vocab
VocabSizes == {0, 3}
TrainArgs ==
    [vocab_size : VocabSizes, vocab : {0},
     teacher_forcing_rate : TeacherForcingRates,
     dropout_rate : {0, 1},                  \* 0.0, or a positive rate
     convert_rate : {[num |-> 1, den |-> 1]},
     num_dec_layers : {1, 2}]
InferenceArgs ==
    [vocab_size : VocabSizes, vocab : {0},
     teacher_forcing_rate : {2},
     dropout_rate : {0, 1},
     convert_rate : ConvertRates,
     num_dec_layers : {1, 2}]

ParamsSet == {0, 1}
TieSet == {"first", "last"}

\* xs: valid lengths of B utterances (the features are abstracted to them)
XsSet == UNION {[1..B -> 1..MaxAudioLen] : B \in 1..MaxBatch}
\* y: B rows of one padded length T2
YsOf(a, B) == UNION {[1..B -> SeqsOfLen(Tokens(a), T2)] : T2 \in 0..MaxT}

\* the valid length of a right-padded row: the position after its last non-PAD id
ValidLen(row) ==
    IF \A i \in DOMAIN row : row[i] = PAD THEN 0
    ELSE MaxOf({i \in DOMAIN row : row[i] # PAD})

\* tf.shape(y)[1]
PaddedLen(yy) == IF yy = <<>> THEN 0 ELSE Len(yy[1])

\* ---- layers ----
\* Listener.__call__ -> pblstm: encoder output and reduced valid lengths
Listener(a, ps, alen, is_training) ==
    [h |-> [b \in DOMAIN alen |-> (alen[b] + ps) % Levels],
     enc_len |-> [b \in DOMAIN alen |-> (alen[b] + 1) \div 2]]

\* tf.nn.embedding_lookup(self.embedding_matrix, char)
_look_up(ps, char) == (char + ps + 1) % Levels

\* tf.layers.dropout(x, rate, training): keep = FALSE zeroes the vector
dropout(x, rate, training, keep) ==
    IF training /\ rate > 0 /\ ~keep THEN 0 ELSE x

\* dec_cell.zero_state: a tuple of per-layer states for a MultiRNNCell, one tensor
\* for a single BasicRNNCell
zero_state(a) ==
    IF a.num_dec_layers > 1
    THEN [kind |-> "tuple", s |-> [l \in 1..a.num_dec_layers |-> 0]]
    ELSE [kind |-> "tensor", s |-> <<0>>]

\* the loop's shape invariant for the state
shape_state(a) == IF a.num_dec_layers > 1 THEN "tuple" ELSE "tensor"

\* the branch _get_hidden_state takes for the configured layer count
hidden_state_branch(a) == IF a.num_dec_layers > 0 THEN "concat" ELSE "extract"

\* tf.concat(dec_state, -1): all per-layer states side by side (a single tensor is
\* returned as it is)
_get_hidden_state(a, dec_state) ==
    IF a.num_dec_layers > 0 THEN dec_state.s
    ELSE <<dec_state.s[Len(dec_state.s)]>>

\* attention(h, state, h_dim, s_dim, seq_len): the context vector
attention(h, s_i, seq_len) == (h + SeqSum(s_i) + seq_len) % Levels

\* BasicRNNCell: output = new state = act(W [x, s] + b)
rnn_cell(ps, x, s) == (SeqSum(x) + 2 * s + ps) % Levels

RECURSIVE StackStates(_, _, _, _)
StackStates(ps, x, s, l) ==
    IF l > Len(s) THEN <<>>
    ELSE LET new == rnn_cell(ps, x, s[l])
         IN  <<new>> \o StackStates(ps, <<new>>, s, l + 1)

\* self.dec_cell(dec_in, dec_state): MultiRNNCell feeds each layer's output to the
\* next; the output is the top layer's
dec_cell(a, ps, dec_in, dec_state) ==
    LET new == StackStates(ps, dec_in, dec_state.s, 1)
    IN  [out |-> new[Len(new)], state |-> [kind |-> dec_state.kind, s |-> new]]

\* tf.layers.dense(dec_out, vocab_size, use_bias=True)
dense(a, ps, dec_out) ==
    [v \in Tokens(a) |-> (dec_out * (v + 1) + ps + v) % Levels]

\* Speller.decode, for one utterance
decode(a, ps, h, seq_len, dec_state, prev_emb) ==
    LET s_i == _get_hidden_state(a, dec_state)
        context == attention(h, s_i, seq_len)
        dec_in == <<prev_emb, context>>
        r == dec_cell(a, ps, dec_in, dec_state)
    IN  [cur_char |-> dense(a, ps, r.out), dec_state |-> r.state]

\* tf.argmax(x, -1); a tie is broken the way the kernel of this build breaks it
argmax(l, tb) ==
    LET top == {i \in DOMAIN l : \A j \in DOMAIN l : l[j] <= l[i]}
    IN  IF tb = "first" THEN CHOOSE i \in top : \A j \in top : i <= j
        ELSE CHOOSE i \in top : \A j \in top : j <= i

\* tf.distributions.Categorical(logits=char).sample: every class has positive
\* probability under the softmax
SampleSupport(char) == DOMAIN char

\* Speller._sample_char, given the drawn class
_sample_char(ps, sampled_char) == _look_up(ps, sampled_char)

\* ---- LAS._get_loss ----
\* tf.nn.softmax_cross_entropy_with_logits against tf.one_hot(y, vocab_size): the
\* log-sum-exp of the logits minus the labelled logit, positive for a label in
\* range; an out-of-range label has an all-zero one-hot row
cross_entropy(l, label) ==
    IF label \in DOMAIN l THEN MaxOf(Range(l)) - l[label] + 1 ELSE 0

mask_padding_none(yy) ==
    [b \in DOMAIN yy |-> [i \in DOMAIN yy[b] |-> 1]]

\* 1 - tf.cast(tf.equal(y, 0), tf.float32)
mask_padding(yy) ==
    [b \in DOMAIN yy |-> [i \in DOMAIN yy[b] |-> 1 - (IF yy[b][i] = PAD THEN 1 ELSE 0)]]

RECURSIVE Sum2(_, _)
Sum2(m, b) == IF b > Len(m) THEN 0 ELSE SeqSum(m[b]) + Sum2(m, b + 1)

_get_loss_no_eps(lg, yy, cl) ==
    LET mask == mask_padding(yy)
        ce == [b \in DOMAIN yy |-> [i \in DOMAIN yy[b] |->
                 cross_entropy(lg[b][i], yy[b][i]) * mask[b][i]]]
    IN  [num |-> Sum2(ce, 1),
         den |-> [units |-> Sum2(mask, 1), nano |-> 0]]

\* the loss is num / (den.units + den.nano * 1e-9)
_get_loss(lg, yy, cl) ==
    LET mask == mask_padding(yy)
        ce == [b \in DOMAIN yy |-> [i \in DOMAIN yy[b] |->
                 cross_entropy(lg[b][i], yy[b][i]) * mask[b][i]]]
    IN  [num |-> Sum2(ce, 1),
         den |-> [units |-> Sum2(mask, 1), nano |-> EpsNano]]

\* the value of a loss: "undefined" for a zero denominator (a division by zero)
LossValue(ls) ==
    IF ls.den.units = 0 /\ ls.den.nano = 0 THEN "undefined"
    ELSE IF ls.num = 0 THEN "zero" ELSE "positive"

\* ---- Speller.__call__ ----
\* the stop criterion of tf.while_loop: the loop goes on while it is true
is_stop(tt, steps) == tt < steps

\* if is_training: the loop body draws its next input at random, else greedily
training_branch_always(is_training) == TRUE

training_branch(is_training) == is_training

\* condition = teacher_forcing_rate > tf.random_uniform([], 0, 1)
teacher_forcing_geq(rate, u) == rate >= u

teacher_forcing(rate, u) == rate > u

\* teacher[:, t]: the column read at step t; the read fails past the padded length
teacher_column(teacher, tt) ==
    IF 0 <= tt /\ tt < PaddedLen(teacher)
    THEN [ok |-> TRUE, col |-> [b \in DOMAIN teacher |-> teacher[b][tt + 1]]]
    ELSE [ok |-> FALSE, col |-> <<>>]

strip_placeholder_kept(out) == out

\* logits = output[:, 1:, :]
strip_placeholder(out) == [b \in DOMAIN out |-> Tail(out[b])]

\* the values the loop is entered with
init_char_zeros(ps, B) == [b \in 1..B |-> [tok |-> 0, emb |-> _look_up(ps, 0)]]

init_char(ps, B) == [b \in 1..B |-> [tok |-> SOS, emb |-> _look_up(ps, SOS)]]
init_state(a, B) == [b \in 1..B |-> zero_state(a)]
init_output(a, B) == [b \in 1..B |-> << [v \in Tokens(a) |-> 0] >>]

loop_vars_initial ==
    [rnn_state |-> init_state(args, Len(audiolen)),
     prev_char |-> init_char(params, Len(audiolen))]

\* the loop variables an iteration receives: those the previous one returned
loop_vars == [rnn_state |-> rnn_state, prev_char |-> prev_char]

NoHist == [branch |-> "none", u |-> -1, sampled |-> <<>>, read |-> -1, iters |-> 0,
           hidden |-> "none"]
NoResult == [mode |-> "none", logits |-> <<>>, y_hat |-> <<>>]
NoLoss == [num |-> 0, den |-> [units |-> 0, nano |-> 0]]

train_dec_steps_long(yy) == PaddedLen(yy) + 1

\* dec_steps = tf.shape(y)[1]
train_dec_steps(yy) == PaddedLen(yy)

\* dec_steps = tf.to_int32(convert_rate * tf.to_float(tf.reduce_max(audiolen)))
inference_dec_steps(a, alen) ==
    (a.convert_rate.num * MaxOf(Range(alen))) \div a.convert_rate.den

\* entering Speller.__call__ from an entry point of LAS
Enter(xs, ys, cl, steps, e) ==
    /\ audiolen' = xs
    /\ y' = ys
    /\ charlen' = cl
    /\ dec_steps' = steps
    /\ enc' = e
    /\ t' = 0
    /\ rnn_state' = init_state(args, Len(xs))
    /\ prev_char' = init_char(params, Len(xs))
    /\ output' = init_output(args, Len(xs))
    /\ logits' = <<>>
    /\ y_hat' = <<>>
    /\ loss' = NoLoss
    /\ prev' = IF calls = 0 THEN NoResult
               ELSE [mode |-> mode, logits |-> logits, y_hat |-> y_hat]
    /\ mode' = mode
    /\ hist' = NoHist
    /\ calls' = calls + 1
    /\ pc' = "loop"
    /\ UNCHANGED <<args, params, tie, tokVars, feats>>

\* LAS.train up to the loop: Listener, then Speller with teacher = y
train ==
    /\ mode = "train"
    /\ pc = "idle"
    /\ \E B \in TrainBatchSizes : \E xs \in [1..B -> 1..MaxAudioLen] : \E ys \in YsOf(args, B) :
          Enter(xs, ys, [b \in DOMAIN ys |-> ValidLen(ys[b])],
                 train_dec_steps(ys), Listener(args, params, xs, TRUE))

\* LAS.inference up to the loop: Listener, then Speller without a teacher; the run
\* may be repeated on the same input
inference ==
    /\ mode = "inference"
    /\ pc = "idle" \/ (pc = "done" /\ calls < MaxCalls)
    /\ \E xs \in XsSet :
          /\ pc = "done" => xs = audiolen
          /\ Enter(xs, <<>>, <<>>,
                 inference_dec_steps(args, xs), Listener(args, params, xs, FALSE))

\* the end of one iteration: return t + 1, rnn_state, prev_char, output
Return(step, next_char, h) ==
    /\ t' = t + 1
    /\ rnn_state' = [b \in DOMAIN step |-> step[b].dec_state]
    /\ prev_char' = next_char
    /\ output' = [b \in DOMAIN step |-> Append(output[b], step[b].cur_char)]
    /\ hist' = [h EXCEPT !.iters = hist.iters + 1, !.hidden = hidden_state_branch(args)]
    /\ pc' = "loop"

\* one pass of the loop body
iteration ==
    /\ pc = "loop"
    /\ is_stop(t, dec_steps)
    /\ LET B == Len(audiolen)
           is_training == (mode = "train")
           step == [b \in 1..B |->
                      decode(args, params, enc.h[b], enc.enc_len[b],
                             loop_vars.rnn_state[b], loop_vars.prev_char[b].emb)]
       IN  IF training_branch(is_training)
           THEN \E u \in UniformDraws : \E keep \in BOOLEAN :
                  /\ args.dropout_rate = 0 => keep
                  /\ IF teacher_forcing(args.teacher_forcing_rate, u)
                     THEN LET rd == teacher_column(y, t)
                              col == rd.col
                          IN  IF ~rd.ok
                              THEN /\ pc' = "error"
                                   /\ hist' = [hist EXCEPT !.branch = "teacher", !.u = u, !.read = t]
                                   /\ UNCHANGED <<t, rnn_state, prev_char, output>>
                              ELSE Return(step,
                                     [b \in 1..B |->
                                        [tok |-> col[b],
                                         emb |-> dropout(_look_up(params, col[b]),
                                                         args.dropout_rate, is_training, keep)]],
                                     [hist EXCEPT !.branch = "teacher", !.u = u,
                                                  !.sampled = <<>>, !.read = t])
                     ELSE \E sm \in [1..B -> Tokens(args)] :
                            /\ \A b \in 1..B : sm[b] \in SampleSupport(step[b].cur_char)
                            /\ Return(step,
                                 [b \in 1..B |->
                                    [tok |-> sm[b],
                                     emb |-> dropout(_sample_char(params, sm[b]),
                                                     args.dropout_rate, is_training, keep)]],
                                 [hist EXCEPT !.branch = "sample", !.u = u,
                                              !.sampled = sm, !.read = -1])
           ELSE Return(step,
                  [b \in 1..B |->
                     [tok |-> argmax(step[b].cur_char, tie),
                      emb |-> _look_up(params, argmax(step[b].cur_char, tie))]],
                  [hist EXCEPT !.branch = "argmax", !.u = -1, !.sampled = <<>>, !.read = -1])
    /\ UNCHANGED <<args, params, tie, audiolen, y, charlen, mode, calls, dec_steps,
                   enc, logits, y_hat, loss, prev, tokVars, feats>>

\* the loop ends; train goes on to the loss, inference to the argmax of the logits
finish ==
    /\ pc = "loop"
    /\ ~is_stop(t, dec_steps)
    /\ logits' = strip_placeholder(output)
    /\ y_hat' = IF mode = "inference"
                THEN [b \in DOMAIN output |->
                        [i \in DOMAIN logits'[b] |-> argmax(logits'[b][i], tie)]]
                ELSE <<>>
    /\ loss' = IF mode = "train" THEN _get_loss(logits', y, charlen) ELSE NoLoss
    /\ pc' = "done"
    /\ UNCHANGED <<args, params, tie, audiolen, y, charlen, mode, calls, dec_steps,
                   enc, t, rnn_state, prev_char, output, prev, hist, tokVars, feats>>

\* ---- chunked feature saving (preprocess.py) ----
\* A list is held by the positions of its items: a run [lo, hi) stands for the
\* items lo .. hi-1 of the original list in their order, and a list built from
\* slices is the sequence of its runs.
Min(a, b) == IF a <= b THEN a ELSE b

\* lst[lo:hi] of a list of n items, 0 <= lo <= hi: Python clamps both ends
slice(n, lo, hi) == [lo |-> Min(lo, n), hi |-> Min(hi, n)]

\* lst += more: the items of the run are appended; a run that continues the last
\* one extends it
extend(runs, r) ==
    IF r.lo = r.hi THEN runs
    ELSE IF runs # <<>> /\ runs[Len(runs)].hi = r.lo
         THEN [runs EXCEPT ![Len(runs)].hi = r.hi]
         ELSE Append(runs, r)

\* the whole list of n items
whole(n) == extend(<<>>, [lo |-> 0, hi |-> n])

chunk_size_floor(n, k) == n \div k

\* n = len(feats) // k + 1
chunk_size(n, k) == n \div k + 1

\* args.feat_type, args.feat_dim
FeatArgs ==
    {[feat_type |-> "mfcc", feat_dim |-> 39], [feat_type |-> "mfcc", feat_dim |-> 40],
     [feat_type |-> "fbank", feat_dim |-> 40], [feat_type |-> "other", feat_dim |-> 39]}

\* process_audios on the paths of a run: one feature and one featlen entry per
\* path, in order; on the first path an mfcc of feat_dim other than 39 fails the
\* assert, and an unknown feat_type appends no feature, so feats[-1] raises
process_audios(audio_path, a) ==
    IF audio_path.lo = audio_path.hi
    THEN [ok |-> TRUE, error |-> "", feats |-> audio_path, featlen |-> audio_path]
    ELSE IF a.feat_type = "mfcc" /\ a.feat_dim # 39
    THEN [ok |-> FALSE, error |-> "AssertionError", feats |-> audio_path, featlen |-> audio_path]
    ELSE IF a.feat_type \notin {"mfcc", "fbank"}
    THEN [ok |-> FALSE, error |-> "IndexError", feats |-> audio_path, featlen |-> audio_path]
    ELSE [ok |-> TRUE, error |-> "", feats |-> audio_path, featlen |-> audio_path]

\* the lengths of the lists given to the two functions
ListLens == 0..2 \cup (_SAMPLE_THRESHOLD - 1)..(_SAMPLE_THRESHOLD + MaxOver)

NoFeats ==
    [fn |-> "none", pc |-> "idle", error |-> "", a |-> [feat_type |-> "", feat_dim |-> 0],
     len |-> 0, k |-> 0, n |-> 0, i |-> 0, chunked |-> FALSE,
     files |-> <<>>, featlen |-> <<>>, saved |-> FALSE, saved_featlen |-> <<>>]

\* no tokenizer built, nothing encoded
NoTok == [status |-> "none", error |-> "", unit |-> "", encode |-> "",
          char2id |-> <<>>, id2char |-> <<>>, subword_tokenizer |-> "unset"]
NoEncoded == [sentence |-> <<>>, with_eos |-> FALSE, res |-> [ok |-> TRUE, tokens |-> <<>>]]

InitTokVars ==
    /\ feats = NoFeats
    /\ tok = NoTok
    /\ encoded = NoEncoded
    /\ tokens = <<>>
    /\ tokenlen = <<>>


\* ---- utils/text.py: the tokenizer ----
\* string.ascii_uppercase[:26]
ascii_uppercase ==
    <<"A", "B", "C", "D", "E", "F", "G", "H", "I", "J", "K", "L", "M",
      "N", "O", "P", "Q", "R", "S", "T", "U", "V", "W", "X", "Y", "Z">>

\* string.punctuation (without the double quote and the backquote, which a TLA+
\* string cannot hold)
punctuation ==
    {"!", "#", "$", "%", "&", "'", "(", ")", "*", "+", ",", "-", ".", "/", ":",
     ";", "<", "=", ">", "?", "@", "[", "\\", "]", "^", "_", "{", "|", "}", "~"}

\* special_tokens = ['<PAD>', '<SOS>', '<EOS>', '<SPACE>'] of main_libri / main_ted
special_tokens == <<"<PAD>", "<SOS>", "<EOS>", "<SPACE>">>

\* the units text_encoder may be built with
Units == {"char", "subword", "word"}

lookup_dicts_alphas_first(special) ==
    LET toks == ascii_uppercase \o special
    IN  [token_to_id |-> [c \in Range(toks) |->
                            MaxOf({i \in 0..(Len(toks) - 1) : toks[i + 1] = c})],
         id_to_token |-> [i \in 0..(Len(toks) - 1) |-> toks[i + 1]]]

\* lookup_dicts: ids are list positions; a token listed twice keeps its last id
lookup_dicts(special) ==
    LET toks == special \o ascii_uppercase
    IN  [token_to_id |-> [c \in Range(toks) |->
                            MaxOf({i \in 0..(Len(toks) - 1) : toks[i + 1] = c})],
         id_to_token |-> [i \in 0..(Len(toks) - 1) |-> toks[i + 1]]]

\* text_encoder.get_vocab_size; self.subword_tokenizer exists only after
\* train_subword_tokenizer has run
get_vocab_size(self) ==
    IF self.unit = "char"
    THEN [ok |-> TRUE, error |-> "", size |-> Cardinality(DOMAIN self.id2char)]
    ELSE IF self.subword_tokenizer = "unset"
         THEN [ok |-> FALSE, error |-> "AttributeError", size |-> 0]
         ELSE [ok |-> TRUE, error |-> "", size |-> 500]

\* text_encoder._id_to_subword: calls get_vocab_size first
_id_to_subword(self) == get_vocab_size(self)

\* text_encoder.__init__: the object built, or the exception raised
text_encoder(unit, special) ==
    IF unit = "char"
    THEN LET d == lookup_dicts(special)
         IN  [status |-> "ok", error |-> "", unit |-> unit, encode |-> "_encode_chars",
              char2id |-> d.token_to_id, id2char |-> d.id_to_token,
              subword_tokenizer |-> "unset"]
    ELSE IF unit = "subword"
         THEN LET self == [NoTok EXCEPT !.unit = unit, !.encode = "_encode_subwords"]
                  r == _id_to_subword(self)
              IN  IF r.ok THEN [self EXCEPT !.status = "ok"]
                  ELSE [self EXCEPT !.status = "raised", !.error = r.error]
         ELSE [NoTok EXCEPT !.status = "raised", !.error = "Unit not support!",
                            !.unit = unit]

\* text_encoder._encode_chars; a character that is no key of char2id is a KeyError
_encode_chars(self, sentence, with_eos) ==
    LET key(c) == IF c # " " THEN c ELSE "<SPACE>"
    IN  IF \E i \in DOMAIN sentence : key(sentence[i]) \notin DOMAIN self.char2id
        THEN [ok |-> FALSE, tokens |-> <<>>]
        ELSE LET ids == [i \in DOMAIN sentence |-> self.char2id[key(sentence[i])]]
             IN  [ok |-> TRUE,
                  tokens |-> IF with_eos THEN ids \o <<self.char2id["<EOS>"]>> ELSE ids]

\* sentence.translate(str.maketrans('', '', string.punctuation))
strip_punctuation(sentence) ==
    LET keep(c) == c \notin punctuation
    IN  SelectSeq(sentence, keep)

\* preprocess.process_texts: every sentence, stripped and encoded with <EOS>
process_texts(self, texts) ==
    LET conv == [k \in DOMAIN texts |->
                  _encode_chars(self, strip_punctuation(texts[k]), TRUE)]
    IN  [ok |-> \A k \in DOMAIN texts : conv[k].ok,
         tokens |-> [k \in DOMAIN texts |-> conv[k].tokens],
         tokenlen |-> [k \in DOMAIN texts |-> Len(conv[k].tokens)]]

\* the batch the data loader hands to LAS.train: the rows right-padded with PAD to
\* the longest, and the valid lengths
pad_batch(toks, lens) ==
    LET T2 == IF lens = <<>> THEN 0 ELSE MaxOf(Range(lens))
    IN  [y |-> [b \in DOMAIN toks |->
                  [i \in 1..T2 |-> IF i <= Len(toks[b]) THEN toks[b][i] ELSE PAD]],
         charlen |-> lens]

\* characters of the sentences given to encode: the upper-case letters, the space
\* and one character outside the alphabet; and of the corpus sentences
EncodeChars == Range(ascii_uppercase) \cup {" ", "a"}
TextChars == {"A", " ", ","}

\* tokenizer = text_encoder(args.unit, special_tokens)
construct ==
    /\ tok.status = "none"
    /\ \E unit \in Units : tok' = text_encoder(unit, special_tokens)
    /\ UNCHANGED <<feats, decVars, encoded, tokens, tokenlen>>

\* tokenizer.encode(sentence, with_eos) on a built character tokenizer
encode ==
    /\ tok.status = "ok"
    /\ tok.encode = "_encode_chars"
    /\ encoded = NoEncoded
    /\ tokens = <<>>
    /\ \E sentence \in SeqsUpTo(EncodeChars, MaxSentenceLen) : \E with_eos \in BOOLEAN :
          encoded' = [sentence |-> sentence, with_eos |-> with_eos,
                      res |-> _encode_chars(tok, sentence, with_eos)]
    /\ UNCHANGED <<feats, decVars, tok, tokens, tokenlen>>

\* tokens, tokenlen = process_texts(texts, tokenizer)
texts_to_tokens ==
    /\ tok.status = "ok"
    /\ tok.encode = "_encode_chars"
    /\ encoded = NoEncoded
    /\ tokens = <<>>
    /\ \E n \in 1..MaxTexts : \E texts \in [1..n -> SeqsUpTo(TextChars, MaxTextLen)] :
          LET r == process_texts(tok, texts)
          IN  /\ r.ok
              /\ tokens' = r.tokens
              /\ tokenlen' = r.tokenlen
    /\ UNCHANGED <<feats, decVars, tok, encoded>>

\* the padded batch of the processed texts, as handed to LAS.train
collate ==
    /\ tokens # <<>>
    /\ y = <<>>
    /\ LET batch == pad_batch(tokens, tokenlen)
       IN  /\ y' = batch.y
           /\ charlen' = batch.charlen
    /\ UNCHANGED <<args, params, tie, audiolen, mode, pc, calls, dec_steps, enc, t,
                   rnn_state, prev_char, output, logits, y_hat, loss, prev, hist, tokVars, feats>>

\* loss = self._get_loss(logits, y, charlen) on the logits of some decode of the batch
batch_loss ==
    /\ y # <<>>
    /\ logits = <<>>
    /\ \E shift \in ActLevels :
          /\ logits' = [b \in DOMAIN y |-> [i \in DOMAIN y[b] |->
                          [v \in Tokens(args) |-> (v + i + b + shift) % Levels]]]
          /\ loss' = _get_loss(logits', y, charlen)
    /\ UNCHANGED <<args, params, tie, audiolen, y, charlen, mode, pc, calls, dec_steps,
                   enc, t, rnn_state, prev_char, output, y_hat, prev, hist, tokVars, feats>>

\* LAS.__init__: an unset vocab_size is replaced by the size of char2id; the
\* assignment is to args.vocab
LAS__init__(a, char2id) ==
    IF a.vocab_size = 0 THEN [a EXCEPT !.vocab = Cardinality(DOMAIN char2id)]
    ELSE a

\* Speller._build_char_embeddings: the embedding table has args.vocab_size rows
_build_char_embeddings(a) == [rows |-> a.vocab_size]

\* Speller.__init__: a table without rows cannot be built (shape [None, E]) or
\* cannot be read at row 1 by the first look-up (shape [0, E])
Speller__init__(a) ==
    [embedding_matrix |-> _build_char_embeddings(a),
     built |-> _build_char_embeddings(a).rows > 0]

Init ==
    /\ InitTokVars
    /\ mode \in {"train", "inference"}
    /\ \E a \in IF mode = "train" THEN TrainArgs ELSE InferenceArgs :
          args = LAS__init__(a, lookup_dicts(special_tokens).token_to_id)
    /\ params \in ParamsSet
    /\ tie \in IF mode = "train" THEN {"first"} ELSE TieSet
    /\ audiolen = <<>>
    /\ y = <<>>
    /\ charlen = <<>>
    /\ pc = IF Speller__init__(args).built THEN "idle" ELSE "raised"
    /\ calls = 0
    /\ dec_steps = 0
    /\ enc = [h |-> <<>>, enc_len |-> <<>>]
    /\ t = 0
    /\ rnn_state = <<>>
    /\ prev_char = <<>>
    /\ output = <<>>
    /\ logits = <<>>
    /\ y_hat = <<>>
    /\ loss = NoLoss
    /\ prev = NoResult
    /\ hist = NoHist

Next == train \/ inference \/ iteration \/ finish

Spec == Init /\ [][Next]_vars

\* the model configured for the character vocabulary
InitTok ==
    /\ InitTokVars
    /\ mode = "train"
    /\ args = [vocab_size |-> Len(special_tokens \o ascii_uppercase), vocab |-> 0,
               teacher_forcing_rate |-> 2, dropout_rate |-> 0,
               convert_rate |-> [num |-> 1, den |-> 1], num_dec_layers |-> 1]
    /\ params = 0
    /\ tie = "first"
    /\ audiolen = <<>>
    /\ y = <<>>
    /\ charlen = <<>>
    /\ pc = "idle"
    /\ calls = 0
    /\ dec_steps = 0
    /\ enc = [h |-> <<>>, enc_len |-> <<>>]
    /\ t = 0
    /\ rnn_state = <<>>
    /\ prev_char = <<>>
    /\ output = <<>>
    /\ logits = <<>>
    /\ y_hat = <<>>
    /\ loss = NoLoss
    /\ prev = NoResult
    /\ hist = NoHist

NextTok == construct \/ encode \/ texts_to_tokens \/ collate \/ batch_loss

SpecTok == InitTok /\ [][NextTok]_vars

\* ---- the claims ----
AllPad(yy) == \A b \in DOMAIN yy : \A i \in DOMAIN yy[b] : yy[b][i] = PAD

LastLogits(b) == output[b][Len(output[b])]

\* the cross-entropy of the positions inside the valid lengths
ValidCe ==
    [b \in DOMAIN y |-> [i \in DOMAIN y[b] |->
        IF i <= charlen[b] THEN cross_entropy(logits[b][i], y[b][i]) ELSE 0]]

\* a sentence of upper-case letters and spaces
UpperOrSpace(sentence) ==
    \A i \in DOMAIN sentence : sentence[i] \in Range(ascii_uppercase) \cup {" "}

\* what one pass of the loop body computes for utterance b from the current state
StepOf(b) ==
    decode(args, params, enc.h[b], enc.enc_len[b], rnn_state[b], prev_char[b].emb)

\* C1: a decode call entered with dec_steps = N (N >= 0, training or inference)
\* returns logits of shape batch x N x vocab_size: one vector per iteration, the
\* placeholder removed, whatever branch each step took.
C1_LogitsLength ==
    pc = "done" =>
        /\ Len(logits) = Len(audiolen)
        /\ \A b \in DOMAIN logits :
              /\ Len(logits[b]) = dec_steps
              /\ Len(logits[b]) = hist.iters
              /\ \A i \in DOMAIN logits[b] : DOMAIN logits[b][i] = Tokens(args)
              /\ logits[b] = Tail(output[b])

C1_Witness ==
    /\ pc = "done"
    /\ mode = "train"
    /\ dec_steps = MaxT
    /\ hist.branch = "sample"
    /\ Len(logits[1]) = MaxT

\* C2: inference is deterministic: a repeated run on the same input and parameters
\* yields the same logits and the same argmax ids; no step of it draws a random
\* number, reads a teacher token, samples or applies dropout, and the next input
\* is the embedding of the argmax of the step's logits.
C2_InferenceDeterministic ==
    mode = "inference" =>
        /\ pc # "error"
        /\ hist.branch \in {"none", "argmax"}
        /\ hist.u = -1 /\ hist.sampled = <<>> /\ hist.read = -1
        /\ (pc \in {"loop", "done"} /\ t > 0) =>
              \A b \in DOMAIN prev_char :
                 /\ prev_char[b].tok = argmax(LastLogits(b), tie)
                 /\ prev_char[b].emb = _look_up(params, prev_char[b].tok)
        /\ (pc = "done" /\ prev.mode = "inference") =>
              /\ y_hat = prev.y_hat
              /\ logits = prev.logits

C2_Witness ==
    /\ mode = "inference"
    /\ pc = "done"
    /\ prev.mode = "inference"
    /\ args.dropout_rate > 0
    /\ Len(audiolen) = 2
    /\ dec_steps >= 2
    /\ y_hat = prev.y_hat
    /\ y_hat[1] # y_hat[2]

C4_TeacherReadsInRange ==
    mode = "train" =>
        /\ pc # "error"
        /\ pc \in {"loop", "done"} => dec_steps = PaddedLen(y)
        /\ hist.read # -1 => (0 <= hist.read /\ hist.read < PaddedLen(y))

C4_Witness ==
    /\ mode = "train"
    /\ pc = "loop"
    /\ PaddedLen(y) = MaxT
    /\ hist.read = PaddedLen(y) - 1
    /\ t = dec_steps

\* C5: the loop is entered with dec_steps >= 1: the padded length of y in train,
\* int(convert_rate * max(audiolen)) in inference, for valid lengths >= 1 and a
\* positive convert_rate.
C5_DecStepsAtLeastOne ==
    pc \in {"loop", "done"} =>
        IF mode = "train"
        THEN dec_steps = PaddedLen(y)
        ELSE ((\A b \in DOMAIN audiolen : audiolen[b] >= 1) /\ args.convert_rate.num > 0)
                => dec_steps >= 1

\* C6: for a batch whose ground-truth tokens are all PAD the loss is 0: the
\* numerator is 0 and the denominator is 0 + 1e-9, never zero.
C6_AllPadLossZero ==
    (mode = "train" /\ pc = "done" /\ AllPad(y)) =>
        /\ loss.num = 0
        /\ loss.den = [units |-> 0, nano |-> EpsNano]
        /\ LossValue(loss) = "zero"

C6_Witness ==
    /\ mode = "train"
    /\ pc = "done"
    /\ AllPad(y)
    /\ PaddedLen(y) = MaxT
    /\ LossValue(loss) = "zero"

\* C7: the loss counts exactly the non-PAD positions, and for a batch of tokenizer
\* output right-padded with PAD these are the positions t < charlen[b].
C7_MaskIsValidLength ==
    (tokens # <<>> /\ logits # <<>>) =>
        /\ \A b \in DOMAIN y : \A i \in DOMAIN y[b] :
              /\ (mask_padding(y)[b][i] = 1) = (y[b][i] # PAD)
              /\ (y[b][i] # PAD) = (i <= charlen[b])
        /\ loss.num = Sum2(ValidCe, 1)
        /\ loss.den.units = SeqSum(charlen)

C7_Witness ==
    /\ tokens # <<>>
    /\ logits # <<>>
    /\ Len(y) = 2
    /\ charlen[1] < charlen[2]
    /\ y[1][Len(y[1])] = PAD
    /\ loss.den.units = charlen[1] + charlen[2]

\* C8: text_encoder supports exactly the units char and subword: with either the
\* constructor succeeds and the object has a usable encode; with any other unit it
\* raises 'Unit not support!'.
C8_UnitsSupported ==
    tok.status # "none" =>
        IF tok.unit \in {"char", "subword"}
        THEN tok.status = "ok" /\ tok.encode \in {"_encode_chars", "_encode_subwords"}
        ELSE tok.status = "raised" /\ tok.error = "Unit not support!"

\* C9: for a sentence of upper-case letters and spaces every id of _encode_chars is
\* in [0, vocab_size) and none is PAD or SOS; with with_eos the output is one longer
\* than the sentence and ends with the <EOS> id; char2id and id2char are inverse
\* bijections over the ids 0..vocab_size-1.
C9_CharIds ==
    (tok.status = "ok" /\ tok.unit = "char") =>
        LET n == get_vocab_size(tok).size
            ids == encoded.res.tokens
        IN  /\ DOMAIN tok.id2char = 0..(n - 1)
            /\ \A i \in DOMAIN tok.id2char : tok.char2id[tok.id2char[i]] = i
            /\ \A c \in DOMAIN tok.char2id :
                  /\ tok.char2id[c] \in 0..(n - 1)
                  /\ tok.id2char[tok.char2id[c]] = c
            /\ tok.char2id["<PAD>"] = PAD /\ tok.char2id["<SOS>"] = SOS
            /\ UpperOrSpace(encoded.sentence) =>
                  /\ encoded.res.ok
                  /\ \A i \in DOMAIN ids : ids[i] \in 0..(n - 1) /\ ids[i] \notin {PAD, SOS}
                  /\ encoded.with_eos =>
                        /\ Len(ids) = Len(encoded.sentence) + 1
                        /\ ids[Len(ids)] = tok.char2id["<EOS>"]
                  /\ ~encoded.with_eos => Len(ids) = Len(encoded.sentence)
                  /\ \A i \in DOMAIN encoded.sentence :
                        tok.id2char[ids[i]] =
                           IF encoded.sentence[i] = " " THEN "<SPACE>" ELSE encoded.sentence[i]

C9_Witness ==
    /\ tok.status = "ok"
    /\ encoded.with_eos
    /\ encoded.sentence = <<"Z", " ">>
    /\ encoded.res.tokens = <<29, 3, 2>>

\* the counter: between 0 and dec_steps inside the loop, one per iteration made,
\* dec_steps on exit; the loop goes on exactly while t < dec_steps
C10_Counter ==
    /\ pc = "loop" =>
          /\ 0 <= t /\ t <= dec_steps /\ hist.iters = t
          /\ is_stop(t, dec_steps) = (t < dec_steps)
    /\ pc = "done" => (t = dec_steps /\ hist.iters = dec_steps)

\* a step that changes t enters the loop at 0 or is an iteration; an iteration
\* runs only below dec_steps and moves t up by 1 towards the unchanged dec_steps
C10_Step ==
    /\ t' # t =>
          \/ /\ pc' = "loop" /\ t' = 0 /\ pc \in {"idle", "done"}
             /\ rnn_state' = init_state(args, Len(audiolen'))
          \/ /\ pc = "loop" /\ pc' = "loop"
             /\ t < dec_steps
             /\ t' = t + 1
             /\ dec_steps' = dec_steps
             /\ \A b \in DOMAIN rnn_state :
                   /\ rnn_state'[b] = StepOf(b).dec_state
                   /\ output'[b] = Append(output[b], StepOf(b).cur_char)
    /\ (pc = "loop" /\ pc' = "done") => (t = dec_steps /\ t' = t)
    /\ (pc = "loop" /\ pc' = "loop" /\ t < dec_steps) => t' = t + 1

\* C10: a decode call ends after exactly dec_steps iterations: t starts at 0, only
\* an iteration changes it and by exactly 1, the loop goes on only while
\* t < dec_steps, t = dec_steps on exit, and every iteration receives the state and
\* the previous-token embedding the iteration before it returned.
C10_Terminates == [][C10_Counter /\ C10_Counter' /\ C10_Step]_vars

C10_Witness ==
    /\ pc = "done"
    /\ mode = "train"
    /\ t = MaxT
    /\ dec_steps = MaxT
    /\ hist.iters = MaxT
    /\ rnn_state # init_state(args, Len(audiolen))

\* ---- main_ted.save_ted_feats(feats, cat, 3) ----
\* the call up to the loop; a list within the threshold is dumped whole
save_ted_feats ==
    /\ feats.fn = "none"
    /\ \E len \in ListLens :
          LET k == 3
          IN  IF len > _SAMPLE_THRESHOLD
              THEN feats' = [feats EXCEPT !.fn = "save_ted_feats", !.pc = "loop",
                                          !.len = len, !.k = k, !.chunked = TRUE,
                                          !.n = chunk_size(len, k), !.i = 0]
              ELSE feats' = [feats EXCEPT !.fn = "save_ted_feats", !.pc = "done",
                                          !.len = len, !.k = k, !.chunked = FALSE,
                                          !.files = <<slice(len, 0, len)>>]
    /\ UNCHANGED <<decVars, tokVars>>

\* for i in range(k): joblib.dump(feats[i*n:(i+1)*n], ...)
save_ted_chunk ==
    /\ feats.fn = "save_ted_feats"
    /\ feats.pc = "loop"
    /\ LET i == feats.i
           n == feats.n
       IN  feats' = [feats EXCEPT
                        !.files = Append(@, slice(feats.len, i * n, (i + 1) * n)),
                        !.i = i + 1,
                        !.pc = IF i + 1 < feats.k THEN "loop" ELSE "done"]
    /\ UNCHANGED <<decVars, tokVars>>

\* ---- main_libri.process_libri_feats(audio_path, cat, 4) ----
\* the call up to the loop; a list within the threshold is processed and saved
\* whole, with its featlen
process_libri_feats ==
    /\ feats.fn = "none"
    /\ \E len \in ListLens : \E a \in FeatArgs :
          LET k == 4
              st == [feats EXCEPT !.fn = "process_libri_feats", !.len = len, !.k = k,
                                  !.a = a]
          IN  IF len > _SAMPLE_THRESHOLD
              THEN feats' = [st EXCEPT !.pc = "loop", !.chunked = TRUE, !.featlen = <<>>,
                                       !.n = chunk_size(len, k), !.i = 0]
              ELSE LET r == process_audios(slice(len, 0, len), a)
                   IN  IF ~r.ok
                       THEN feats' = [st EXCEPT !.pc = "raised", !.error = r.error]
                       ELSE feats' = [st EXCEPT !.pc = "done", !.chunked = FALSE,
                                                !.files = <<r.feats>>,
                                                !.featlen = extend(<<>>, r.featlen),
                                                !.saved = TRUE,
                                                !.saved_featlen = extend(<<>>, r.featlen)]
    /\ UNCHANGED <<decVars, tokVars>>

\* for i in range(k): process the slice, featlen += featlen_, dump the features;
\* after the last chunk np.save writes featlen
process_libri_chunk ==
    /\ feats.fn = "process_libri_feats"
    /\ feats.pc = "loop"
    /\ LET i == feats.i
           n == feats.n
           r == process_audios(slice(feats.len, i * n, (i + 1) * n), feats.a)
           last == ~(i + 1 < feats.k)
           featlen == extend(feats.featlen, r.featlen)
       IN  IF ~r.ok
           THEN feats' = [feats EXCEPT !.pc = "raised", !.error = r.error]
           ELSE feats' = [feats EXCEPT
                             !.featlen = featlen,
                             !.files = Append(@, r.feats),
                             !.i = i + 1,
                             !.pc = IF last THEN "done" ELSE "loop",
                             !.saved = last,
                             !.saved_featlen = IF last THEN featlen ELSE @]
    /\ UNCHANGED <<decVars, tokVars>>

NextFeats ==
    save_ted_feats \/ save_ted_chunk \/ process_libri_feats \/ process_libri_chunk

SpecFeats == InitTok /\ [][NextFeats]_vars

\* C11: the state summary given to attention is the concatenation of the per-layer
\* states for more than one layer and the extracted hidden component for exactly
\* one layer: _get_hidden_state draws the single/multi distinction at the layer
\* count at which the cell construction and the loop's shape invariant draw it.
C11_SameLayerCount ==
    (pc \in {"loop", "done"} /\ hist.iters > 0) =>
        /\ \A b \in DOMAIN rnn_state : rnn_state[b].kind = shape_state(args)
        /\ (hist.hidden = "concat") <=> (shape_state(args) = "tuple")
        /\ (hist.hidden = "extract") <=> (args.num_dec_layers = 1)

\* C12: at loop entry of every decode call, training or inference, t = 0, the
\* recurrent state is all-zero and the previous token of every utterance is the
\* id 1, the id lookup_dicts gives <SOS> for the special tokens of preprocessing,
\* which is not the PAD, EOS or SPACE id.
C12_LoopEntry ==
    (pc = "loop" /\ hist.iters = 0) =>
        LET char2id == lookup_dicts(special_tokens).token_to_id
        IN  /\ t = 0
            /\ DOMAIN rnn_state = DOMAIN audiolen
            /\ DOMAIN prev_char = DOMAIN audiolen
            /\ \A b \in DOMAIN rnn_state :
                  /\ Len(rnn_state[b].s) >= 1
                  /\ \A l \in DOMAIN rnn_state[b].s : rnn_state[b].s[l] = 0
            /\ \A b \in DOMAIN prev_char :
                  /\ prev_char[b].tok = 1
                  /\ prev_char[b].tok = char2id["<SOS>"]
                  /\ prev_char[b].tok \notin
                        {char2id["<PAD>"], char2id["<EOS>"], char2id["<SPACE>"]}
                  /\ prev_char[b].emb = _look_up(params, char2id["<SOS>"])

\* a second inference call on a batch of two enters the loop again, after the
\* first call left a non-zero state and a later counter behind
C12_Witness ==
    /\ pc = "loop" /\ hist.iters = 0
    /\ mode = "inference" /\ calls = 2 /\ Len(audiolen) = 2
    /\ dec_steps >= 1
    /\ args.num_dec_layers = 2

\* C13: when the configured vocab_size is unset, constructing LAS makes the
\* model's vocabulary size len(char2id): the Speller built by the constructor has
\* an embedding table of len(char2id) rows and logits of len(char2id) columns;
\* a set vocab_size is used unchanged.  (LAS.__init__ writes args.vocab only
\* when vocab_size was unset.)
C13_VocabSize ==
    LET n == Cardinality(DOMAIN lookup_dicts(special_tokens).token_to_id)
        unset == args.vocab # 0
    IN  /\ unset =>
              /\ args.vocab_size = n
              /\ Speller__init__(args).embedding_matrix.rows = n
              /\ Speller__init__(args).built
              /\ pc # "raised"
        /\ ~unset =>
              /\ args.vocab_size \in VocabSizes \ {0}
              /\ Speller__init__(args).embedding_matrix.rows = args.vocab_size
        /\ \A b \in DOMAIN logits : \A i \in DOMAIN logits[b] :
              DOMAIN logits[b][i] = 0..(args.vocab_size - 1)

\* C14: chunked saving loses and duplicates nothing: for a list of more than
\* _SAMPLE_THRESHOLD items the k slices [i*n, (i+1)*n), n = len // k + 1, are
\* pairwise disjoint and in chunk order make up the original list (k = 3 in
\* save_ted_feats, 4 in process_libri_feats); the featlen saved by
\* process_libri_feats has one entry per audio path in the original order,
\* chunked or not.
C14_ChunksExact ==
    /\ feats.fn = "save_ted_feats" => feats.k = 3
    /\ feats.fn = "process_libri_feats" => feats.k = 4
    /\ feats.fn # "none" => (feats.chunked <=> feats.len > _SAMPLE_THRESHOLD)
    /\ (feats.pc = "loop") =>
          \A j \in DOMAIN feats.files :
             feats.files[j] = slice(feats.len, (j - 1) * (feats.len \div feats.k + 1),
                                    j * (feats.len \div feats.k + 1))
    /\ (feats.pc = "done" /\ feats.chunked) =>
          /\ Len(feats.files) = feats.k
          /\ feats.files[1].lo = 0
          /\ feats.files[feats.k].hi = feats.len
          /\ \A j \in 1..(feats.k - 1) : feats.files[j].hi = feats.files[j + 1].lo
          /\ \A j \in 1..feats.k : feats.files[j].lo <= feats.files[j].hi
          /\ \A j1, j2 \in 1..feats.k :
                j1 < j2 => feats.files[j1].hi <= feats.files[j2].lo
    /\ (feats.pc = "done" /\ ~feats.chunked) =>
          feats.files = <<[lo |-> 0, hi |-> feats.len]>>
    /\ (feats.pc = "done" /\ feats.fn = "process_libri_feats") =>
          /\ feats.saved
          /\ feats.saved_featlen = whole(feats.len)
    /\ feats.saved => feats.pc = "done"

\* a chunked call of process_libri_feats has finished on a list whose length is
\* no multiple of k, so the last chunk is shorter than the others
C14_Witness ==
    /\ feats.fn = "process_libri_feats" /\ feats.pc = "done" /\ feats.chunked
    /\ feats.len % feats.k # 0
    /\ feats.files[feats.k].hi - feats.files[feats.k].lo < feats.n
    /\ feats.files[feats.k].hi > feats.files[feats.k].lo
    /\ feats.saved_featlen = <<[lo |-> 0, hi |-> feats.len]>>

====
